---- MODULE Spec2Model ----
(***************************************************************************)
(* Pictionary game backend (backend/app/main.py): the single GameState     *)
(* instance and the per-connection websocket_endpoint coroutines.          *)
(*                                                                         *)
(* Every coroutine runs on one asyncio event loop.  A coroutine runs       *)
(* without interruption until it awaits; the awaits of the program are     *)
(* websocket.receive_text() and websocket.send_json().  One step of the    *)
(* model is therefore: one connection's coroutine is resumed and runs up   *)
(* to its next send_json (the message it hands over is recorded) or back   *)
(* to receive_text, or to its end.  A handler that is resumed again right  *)
(* away gives the run in which a send never suspends.                      *)
(***************************************************************************)
EXTENDS Integers, Sequences, FiniteSets, TLC

\* ------------------------------------------------------------- bounds
\* start_new_round is not run once rounds_played has passed this value
RoundCap == 3
\* at most this many messages are taken up while another connection's
\* coroutine is suspended in a send (a send may or may not suspend)
MaxOverlap == 1

\* ---------------------------------------------------- program constants
\* MAX_ROUNDS = int(os.getenv("MAX_ROUNDS", "10")): any integer of the
\* environment; the model is run with a game of two rounds.
MAX_ROUNDS == 2

\* the websocket connections that are accepted, in the order of their first
\* messages
Conns == {1, 2}
Names == {"A", "B"}
\* Python's None (no player name and no word is the string "None")
None == "None"
\* self.words, cut to its second and third entries
words == <<"dog", "cat">>
Words == {words[i] : i \in 1 .. Len(words)}
\* payloads of a drawing message (message["data"])
Strokes == {"s1"}

\* The characters of the strings a guess message may carry.
Chars ==
  [t \in {"dog", "DOG", "dog ", "cat"} |->
     CASE t = "dog"  -> <<"d", "o", "g">>
       [] t = "DOG"  -> <<"D", "O", "G">>
       [] t = "dog " -> <<"d", "o", "g", " ">>
       [] t = "cat"  -> <<"c", "a", "t">>]
Texts == DOMAIN Chars

\* str.lower(), character by character
LowerChar(ch) ==
  CASE ch = "D" -> "d"
    [] ch = "O" -> "o"
    [] ch = "G" -> "g"
    [] OTHER -> ch
lower(t) == [i \in 1 .. Len(Chars[t]) |-> LowerChar(Chars[t][i])]

VARIABLES
  players,        \* self.players: the dict's entries in insertion order
  scores,         \* self.scores
  current_turn,   \* self.current_turn
  current_word,   \* self.current_word
  rounds_played,  \* self.rounds_played
  player_name,    \* websocket_endpoint's local player_name, per connection
  pc,             \* where each connection's coroutine is suspended
  out,            \* the last step's message to send_json, and what handle_guess
                  \* returned in it
  lastDrawer,     \* the drawer start_new_round assigned last (history)
  overlaps        \* operations begun while another was suspended (history)

vars == <<players, scores, current_turn, current_word, rounds_played,
          player_name, pc, out, lastDrawer, overlaps>>

\* ------------------------------------------------------------ the dict
\* A deleted entry keeps its slot (CPython marks it, and compacts the
\* entries only when the table is resized), so that a suspended iterator's
\* position stays meaningful.
Tomb == [name |-> None, ws |-> 0]
IsLive(e) == e.name # None
ma_used(entries) == Cardinality({i \in 1 .. Len(entries) : IsLive(entries[i])})
Keys(entries) == {entries[i].name : i \in {j \in 1 .. Len(entries) : IsLive(entries[j])}}
IndexOf(entries, n) == CHOOSE i \in 1 .. Len(entries) : entries[i].name = n
\* d[n] = ws: an existing key keeps its place, a new key is appended
dict_set(entries, n, c) ==
  IF n \in Keys(entries)
  THEN [entries EXCEPT ![IndexOf(entries, n)] = [name |-> n, ws |-> c]]
  ELSE Append(entries, [name |-> n, ws |-> c])
\* del d[n]
dict_del(entries, n) == [entries EXCEPT ![IndexOf(entries, n)] = Tomb]
Compact(entries) == SelectSeq(entries, IsLive)

\* iter(d.items()) / iter(d.values())
NoIt == [pos |-> 0, used |-> 0, len |-> 0]
dict_iter(entries) == [pos |-> 1, used |-> ma_used(entries), len |-> ma_used(entries)]
FirstLive(entries, pos) ==
  LET S == {i \in pos .. Len(entries) : IsLive(entries[i])}
  IN IF S = {} THEN 0 ELSE CHOOSE i \in S : \A j \in S : i <= j
\* next(it): RuntimeError when the dict changed size, or when it holds more
\* entries than the iterator was to give; StopIteration at the end.
dict_next(entries, it) ==
  IF it.used # ma_used(entries)
  THEN [tag |-> "error", entry |-> Tomb, it |-> NoIt]
  ELSE LET i == FirstLive(entries, it.pos) IN
       IF i = 0 THEN [tag |-> "stop", entry |-> Tomb, it |-> NoIt]
       ELSE IF it.len = 0 THEN [tag |-> "error", entry |-> Tomb, it |-> NoIt]
       ELSE [tag |-> "item", entry |-> entries[i],
             it |-> [pos |-> i + 1, used |-> it.used, len |-> it.len - 1]]

\* ----------------------------------------------------------- messages
\* the empty dict of scores
NoScores == [n \in {} |-> 0]
NoMsg == [type |-> None, to |-> 0, rcpt |-> None, word |-> None,
          currentTurn |-> None, player |-> None, roundsPlayed |-> 0,
          scores |-> NoScores, data |-> None, failed |-> FALSE]

\* the coroutine of a connection: waiting in receive_text (for its first
\* message: at "new") ...
AtRecv == [at |-> "recv", kind |-> None, it |-> NoIt, cont |-> None,
           who |-> None, data |-> None, sent |-> <<>>]
AtNew == [AtRecv EXCEPT !.at = "new"]
\* ... ended ...
AtClosed == [AtRecv EXCEPT !.at = "closed"]
\* ... suspended in add_player's send of player_joined ...
AtJoined == [AtRecv EXCEPT !.at = "joined"]
\* ... or suspended in a send of a broadcast loop of `kind`, which goes on
\* at `cont` when the loop ends; sent: the messages of the loop so far.
AtBroadcast(kind, entries, cont, who, data) ==
  [at |-> "bc", kind |-> kind, it |-> dict_iter(entries), cont |-> cont,
   who |-> who, data |-> data, sent |-> <<>>]

\* ------------------------------------------------- the shared GameState
\* A step computes on a record x of GameState's fields and gives a result:
\* the fields after the step, the place the coroutine is suspended at, the
\* message it handed to send_json (NoMsg: none), and what handle_guess
\* returned if it returned in this step.  ok is FALSE when the step's
\* random.choice cannot give the value drawn for it.
Result(x, at, msg, ret) == [x |-> x, pc |-> at, msg |-> msg, ret |-> ret, ok |-> TRUE]
Invalid(x) == [x |-> x, pc |-> AtRecv, msg |-> NoMsg, ret |-> None, ok |-> FALSE]

\* (mutant) broadcast_game_state without the test of the recipient
game_state_msg_unredacted(x, e) ==
  [NoMsg EXCEPT !.type = "game_state", !.to = e.ws, !.rcpt = e.name,
                !.currentTurn = x.current_turn,
                !.word = x.current_word,
                !.scores = x.scores,
                !.roundsPlayed = x.rounds_played]
\* broadcast_game_state's message for the entry e of self.players
game_state_msg(x, e) ==
  [NoMsg EXCEPT !.type = "game_state", !.to = e.ws, !.rcpt = e.name,
                !.currentTurn = x.current_turn,
                !.word = IF e.name = x.current_turn THEN x.current_word ELSE None,
                !.scores = x.scores,
                !.roundsPlayed = x.rounds_played]
\* broadcast_game_over's message
game_over_msg(x, e) ==
  [NoMsg EXCEPT !.type = "game_over", !.to = e.ws, !.rcpt = e.name,
                !.scores = x.scores]
\* broadcast_drawing's message
drawing_msg(x, e, data) ==
  [NoMsg EXCEPT !.type = "drawing", !.to = e.ws, !.rcpt = e.name, !.data = data]
\* broadcast_correct_guess's message: the word is read when it is sent
correct_guess_msg(x, e, who) ==
  [NoMsg EXCEPT !.type = "correct_guess", !.to = e.ws, !.rcpt = e.name,
                !.player = who, !.word = x.current_word]
\* add_player's acknowledgement
player_joined_msg(n, c) ==
  [NoMsg EXCEPT !.type = "player_joined", !.to = c, !.rcpt = n, !.player = n]

message(x, e, b) ==
  CASE b.kind = "game_state"    -> game_state_msg(x, e)
    [] b.kind = "game_over"     -> game_over_msg(x, e)
    [] b.kind = "drawing"       -> drawing_msg(x, e, b.data)
    [] b.kind = "correct_guess" -> correct_guess_msg(x, e, b.who)

\* websocket.send_json(m): it raises when the connection it writes to is one
\* whose websocket_endpoint has ended (h.closed)
send_json(m, h) == [m EXCEPT !.failed = m.to \in h.closed]

\* (mutant) remove_player without del self.scores[player_name]
remove_player_keeps_score(x, n) ==
  IF n \in Keys(x.players)
  THEN [x EXCEPT !.players = dict_del(x.players, n)]
  ELSE x
\* remove_player.  It is not a coroutine: its call self.start_new_round()
\* only creates a coroutine object that is never awaited, so that no line
\* of start_new_round runs.
remove_player(x, n) ==
  IF n \in Keys(x.players)
  THEN [x EXCEPT !.players = dict_del(x.players, n),
                 !.scores = [m \in DOMAIN x.scores \ {n} |-> x.scores[m]]]
  ELSE x

\* (mutant) start_new_round clearing the drawer and keeping the word
no_round_keeps_word(x) == [x EXCEPT !.current_turn = None]
\* start_new_round with fewer than two players
no_round(x) == [x EXCEPT !.current_turn = None, !.current_word = None]
\* (mutant) the round counter raised and the round cleared
next_round_cleared(x) ==
  [x EXCEPT !.rounds_played = @ + 1, !.current_turn = None, !.current_word = None]
\* self.rounds_played += 1
next_round(x) == [x EXCEPT !.rounds_played = @ + 1]
\* (mutant) the comparison with max_rounds off by one
max_rounds_reached(x) == x.rounds_played >= MAX_ROUNDS
\* self.rounds_played > self.max_rounds
max_rounds_passed(x) == x.rounds_played > MAX_ROUNDS
\* (mutant) the candidates without the test p != self.current_turn
all_players(x) == Keys(x.players)
\* random.choice's candidates in start_new_round
available_players(x) == Keys(x.players) \ {x.current_turn}
\* the drawer d and the word w that random.choice gave
new_round(x, d, w) ==
  [x EXCEPT !.current_turn = d, !.current_word = w, !.lastDrawer = d]

\* (mutant) handle_guess's condition without the test of the drawer
guess_hit_any_player(x, n, guess) ==
  /\ x.current_word # None
  /\ lower(guess) = lower(x.current_word)
\* handle_guess's condition
guess_hit(x, n, guess) ==
  /\ n # x.current_turn
  /\ x.current_word # None
  /\ lower(guess) = lower(x.current_word)

RECURSIVE broadcast(_, _, _), Continue(_, _, _), Raise(_, _, _), start_new_round(_, _, _)

\* (mutant) the send of a broadcast loop outside a try: its exception leaves
\* the coroutine
send_uncaught(x, b, m, h) ==
  IF m.failed
  THEN Raise(x, b.cont, h)
  ELSE Result(x, [b EXCEPT !.sent = Append(@, m)], m, None)
\* The body of a broadcast loop: try: await websocket.send_json(m), except
\* Exception: log.  Whether or not the send raised, the loop goes on with
\* its next entry when the coroutine is resumed.
try_send(x, b, m, h) == Result(x, [b EXCEPT !.sent = Append(@, m)], m, None)

\* The loop of a broadcast_* coroutine from its iterator b.it on, up to its
\* next send.  The for statement is outside the loop's try: an error of the
\* iterator leaves the coroutine.  broadcast_drawing sends nothing to the
\* entry of current_turn.
broadcast(x, b, h) ==
  LET nx == dict_next(x.players, b.it) IN
  CASE nx.tag = "error" -> Raise(x, b.cont, h)
    [] nx.tag = "stop"  -> Continue(x, b.cont, h)
    [] nx.tag = "item"  ->
         IF b.kind = "drawing" /\ nx.entry.name = x.current_turn
         THEN broadcast(x, [b EXCEPT !.it = nx.it], h)
         ELSE try_send(x, [b EXCEPT !.it = nx.it],
                       send_json(message(x, nx.entry, b), h), h)

\* What follows a coroutine that returned:
\*   recv       back in websocket_endpoint's loop, at receive_text
\*   closed     the end of websocket_endpoint
\*   join_bc    websocket_endpoint's broadcast_game_state after add_player
\*   snr        handle_guess's start_new_round after broadcast_correct_guess
\*   guess_ret  handle_guess's return True
\*   reset_ret  reset_game's return
Continue(x, cont, h) ==
  CASE cont = "recv"      -> Result(x, AtRecv, NoMsg, None)
    [] cont = "closed"    -> Result(x, AtClosed, NoMsg, None)
    [] cont = "guess_ret" -> Result(x, AtRecv, NoMsg, "True")
    [] cont = "reset_ret" -> Result(x, AtRecv, NoMsg, None)
    [] cont = "join_bc"   ->
         broadcast(x, AtBroadcast("game_state", x.players, "recv", None, None), h)
    [] cont = "snr"       -> start_new_round(x, "guess_ret", h)

\* An exception that leaves the operation: websocket_endpoint's
\* `except Exception` removes the connection's player and broadcasts the
\* state; an exception raised in an except block itself ends the coroutine.
Raise(x, cont, h) ==
  IF cont = "closed" \/ h.pn = None
  THEN Result(x, AtClosed, NoMsg, None)
  ELSE LET x1 == remove_player(x, h.pn) IN
       broadcast(x1, AtBroadcast("game_state", x1.players, "closed", None, None), h)

start_new_round(x, cont, h) ==
  IF ma_used(x.players) < 2
  THEN Continue(no_round(x), cont, h)
  ELSE LET x1 == next_round(x) IN
       IF max_rounds_passed(x1)
       THEN broadcast(x1, AtBroadcast("game_over", x1.players, cont, None, None), h)
       ELSE IF h.d \notin available_players(x1) \/ h.w \notin Words
       THEN Invalid(x)
       ELSE LET x2 == new_round(x1, h.d, h.w)
            IN broadcast(x2, AtBroadcast("game_state", x2.players, cont, None, None), h)

\* add_player up to its send of player_joined
add_player(x, n, c) ==
  LET x1 == [x EXCEPT !.players = dict_set(x.players, n, c),
                      !.scores = [m \in DOMAIN x.scores \cup {n} |->
                                    IF m = n THEN 0 ELSE x.scores[m]]]
  IN Result(x1, AtJoined, player_joined_msg(n, c), None)

\* add_player after that send, and websocket_endpoint's broadcast after it
add_player_round(x, h) ==
  IF ma_used(x.players) >= 2 /\ x.current_turn = None
  THEN start_new_round(x, "join_bc", h)
  ELSE Continue(x, "join_bc", h)

\* handle_guess: scores[player_name] += 1 raises KeyError for a name that
\* is not a key of scores
handle_guess(x, n, guess, h) ==
  IF guess_hit(x, n, guess)
  THEN IF n \notin DOMAIN x.scores
       THEN Raise(x, "recv", h)
       ELSE LET x1 == [x EXCEPT !.scores[n] = @ + 1] IN
            broadcast(x1, AtBroadcast("correct_guess", x1.players, "snr", n, None), h)
  ELSE Result(x, AtRecv, NoMsg, "False")

\* (mutant) reset_game without its loop over the scores
reset_game_keeps_scores(x, h) ==
  start_new_round([x EXCEPT !.rounds_played = 0], "reset_ret", h)
\* reset_game
reset_game(x, h) ==
  LET x1 == [x EXCEPT !.scores = [m \in DOMAIN x.scores \cup Keys(x.players) |->
                                    IF m \in Keys(x.players) THEN 0 ELSE x.scores[m]],
                      !.rounds_played = 0]
  IN start_new_round(x1, "reset_ret", h)

\* ------------------------------------------------------------ the steps
State == [players |-> players, scores |-> scores, current_turn |-> current_turn,
          current_word |-> current_word, rounds_played |-> rounds_played,
          lastDrawer |-> lastDrawer]

\* c is in receive_text.  Connections are numbered in the order in which
\* their first messages arrive.
Idle(c) ==
  IF pc[c].at = "new" THEN \A k \in 1 .. c - 1 : pc[k].at # "new"
  ELSE pc[c].at = "recv"
Suspended(c) == pc[c].at \in {"joined", "bc"}
NoOut == [msg |-> NoMsg, ret |-> None]

\* c takes up a message while another coroutine is inside an operation
Overlaps(c) == Idle(c) /\ \E k \in Conns \ {c} : Suspended(k)

\* The step of connection c with result r; pn is its player_name after the
\* step (the local is gone when the coroutine has ended).  The entries of
\* deleted keys are dropped while no iterator is suspended.
Step(c, r, pn) ==
  /\ r.ok
  /\ r.x.rounds_played <= RoundCap
  /\ overlaps' = IF Overlaps(c) THEN overlaps + 1 ELSE overlaps
  /\ overlaps' <= MaxOverlap
  /\ pc' = [pc EXCEPT ![c] = r.pc]
  /\ players' = IF \E k \in Conns : pc'[k].at = "bc"
                THEN r.x.players ELSE Compact(r.x.players)
  /\ scores' = r.x.scores
  /\ current_turn' = r.x.current_turn
  /\ current_word' = r.x.current_word
  /\ rounds_played' = r.x.rounds_played
  /\ lastDrawer' = r.x.lastDrawer
  /\ player_name' = [player_name EXCEPT ![c] = IF r.pc.at = "closed" THEN None ELSE pn]
  /\ out' = [msg |-> r.msg, ret |-> r.ret]

\* the coroutine's player_name, the results p = <<drawer, word>> of the
\* step's two random.choice calls, and the connections that have ended
Locals(c, p) == [pn |-> player_name[c], d |-> p[1], w |-> p[2],
                 closed |-> {k \in Conns : pc[k].at = "closed"}]
NoPick == <<None, None>>
\* what the two random.choice calls can give when start_new_round gets to
\* them in this step
Picks == IF available_players(State) = {} THEN {NoPick}
         ELSE available_players(State) \X Words

\* websocket_endpoint: message["type"] == "join"
Join(c, n) ==
  /\ Idle(c)
  /\ Step(c, add_player(State, n, c), n)

\* a coroutine suspended in a send goes on
Resume(c, p) ==
  /\ Suspended(c)
  /\ Step(c,
          IF pc[c].at = "joined"
          THEN add_player_round(State, Locals(c, p))
          ELSE broadcast(State, pc[c], Locals(c, p)),
          player_name[c])

\* websocket_endpoint: message["type"] == "drawing"; valid: the message has
\* "data" with "x" and "y"
Drawing(c, data, valid) ==
  /\ Idle(c)
  /\ Step(c,
          IF player_name[c] = current_turn /\ valid
          THEN broadcast(State, AtBroadcast("drawing", players, "recv", None, data),
                         Locals(c, NoPick))
          ELSE Result(State, AtRecv, NoMsg, None),
          player_name[c])

\* websocket_endpoint: message["type"] == "guess"
Guess(c, guess) ==
  /\ Idle(c)
  /\ Step(c, handle_guess(State, player_name[c], guess, Locals(c, NoPick)),
          player_name[c])

\* websocket_endpoint: message["type"] == "reset_game"
ResetGame(c, p) ==
  /\ Idle(c)
  /\ Step(c, reset_game(State, Locals(c, p)), player_name[c])

\* websocket_endpoint: receive_text raises WebSocketDisconnect
Disconnect(c) ==
  /\ Idle(c)
  /\ Step(c,
          IF player_name[c] # None
          THEN LET x1 == remove_player(State, player_name[c]) IN
               broadcast(x1, AtBroadcast("game_state", x1.players, "closed", None, None),
                         Locals(c, NoPick))
          ELSE Result(State, AtClosed, NoMsg, None),
          player_name[c])

Init ==
  /\ players = <<>>
  /\ scores = NoScores
  /\ current_turn = None
  /\ current_word = None
  /\ rounds_played = 0
  /\ player_name = [c \in Conns |-> None]
  /\ pc = [c \in Conns |-> AtNew]
  /\ out = NoOut
  /\ lastDrawer = None
  /\ overlaps = 0

Next ==
  \/ \E c \in Conns, n \in Names : Join(c, n)
  \/ \E c \in Conns, p \in Picks : Resume(c, p)
  \/ \E c \in Conns, data \in Strokes, valid \in BOOLEAN : Drawing(c, data, valid)
  \/ \E c \in Conns, guess \in Texts : Guess(c, guess)
  \/ \E c \in Conns, p \in Picks : ResetGame(c, p)
  \/ \E c \in Conns : Disconnect(c)

\* Every run of the coroutines, within the bounds.
Spec == Init /\ [][Next]_vars

\* The runs in which no send suspends: every operation runs to its end
\* before the next message is handled.
SeqNext == Next /\ overlaps' = 0
SeqSpec == Init /\ [][SeqNext]_vars

\* ------------------------------------------------------------- claims
Quiet == \A c \in Conns : ~Suspended(c)
WordsIn(sent) == {i \in 1 .. Len(sent) : sent[i].word # None}

\* C1: a game_state message carries a word only when its recipient is the
\* drawer (current_turn) at the moment it is sent; any other recipient
\* gets word = None.  Checked in every run of the coroutines, with
\* operations that overlap.
C1_WordOnlyToDrawer ==
  out.msg.type = "game_state" =>
    /\ out.msg.word # None => out.msg.rcpt = current_turn
    /\ out.msg.rcpt # current_turn => out.msg.word = None
\* a state reached by overlapping operations in which a player that is not
\* the drawer was just sent the state of a round with a word
C1_Witness ==
  /\ out.msg.type = "game_state"
  /\ current_word # None
  /\ out.msg.rcpt # current_turn
  /\ out.msg.word = None
  /\ overlaps > 0

\* C2: in every game-state broadcast exactly one recipient, the drawer,
\* gets a word whenever current_turn is set (stated of a broadcast that has
\* sent to every player, in runs where no send suspends).
C2_ExactlyOneWord ==
  \A c \in Conns :
    (/\ pc[c].at = "bc"
     /\ pc[c].kind = "game_state"
     /\ pc[c].it.len = 0
     /\ current_turn # None) => Cardinality(WordsIn(pc[c].sent)) = 1

\* C3: whenever no operation is under way, current_turn is None or the name
\* of a player in players.
C3_TurnIsPlayer ==
  Quiet => (current_turn = None \/ current_turn \in Keys(players))

\* C4: current_word is set if and only if current_turn is set, in every
\* state (after every step of every operation).
C4_WordIffTurn == (current_word # None) <=> (current_turn # None)
\* the round is still assigned after the game-over branch has run
C4_Witness ==
  /\ current_turn # None
  /\ current_word # None
  /\ rounds_played = MAX_ROUNDS + 1

\* C5: the keys of players are the keys of scores, in every state.
C5_SameKeys == Keys(players) = DOMAIN scores
\* two connections have joined under one name, which is a key
C5_Witness ==
  \E c \in Conns, k \in Conns :
    /\ c # k
    /\ player_name[c] # None
    /\ player_name[c] = player_name[k]
    /\ player_name[c] \in Keys(players)
    /\ DOMAIN scores # {}

\* the step in which add_player goes on after its acknowledgement, at its
\* test for a round to start
JoinCheck(c) == pc[c].at = "joined" /\ pc'[c].at # "joined"

\* C6 as claimed: a join that makes two or more players while no round is
\* active leaves current_turn and current_word set, whatever rounds_played.
C6_JoinStartsRound ==
  [][\A c \in Conns :
       (JoinCheck(c) /\ current_turn = None /\ ma_used(players) >= 2)
         => (current_turn' # None /\ current_word' # None)]_vars
\* C6 as amended: it does so when rounds_played < max_rounds; from
\* max_rounds on the join raises rounds_played, starts the game-over
\* broadcast and leaves both None.
C6_JoinStartsRoundBelowMax ==
  [][\A c \in Conns :
       (JoinCheck(c) /\ current_turn = None /\ ma_used(players) >= 2)
         => /\ rounds_played' = rounds_played + 1
            /\ IF rounds_played < MAX_ROUNDS
               THEN current_turn' \in Keys(players) /\ current_word' \in Words
               ELSE /\ current_turn' = None
                    /\ current_word' = None
                    /\ out'.msg.type = "game_over"]_vars
\* a join has started a round after earlier rounds were played
C6_Witness ==
  \E c \in Conns :
    /\ pc[c].at = "bc"
    /\ pc[c].kind = "game_state"
    /\ pc[c].cont = "join_bc"
    /\ rounds_played = MAX_ROUNDS
    /\ current_turn # None

\* the step in which start_new_round of connection c assigns a drawer: it
\* is the step that sends the first message of start_new_round's game-state
\* broadcast (the broadcast that returns into add_player, handle_guess or
\* reset_game)
Assigns(c) ==
  /\ pc'[c] # pc[c]
  /\ pc'[c].at = "bc"
  /\ pc'[c].kind = "game_state"
  /\ pc'[c].cont \in {"join_bc", "guess_ret", "reset_ret"}
  /\ Len(pc'[c].sent) = 1

\* C7 as claimed: a drawer that start_new_round assigns differs from the
\* drawer it assigned the time before.
C7_NeverSameDrawerTwice ==
  [][\A c \in Conns : Assigns(c) => current_turn' # lastDrawer]_vars
\* C7 as amended: the drawer assigned is a connected player other than
\* current_turn as it stood when start_new_round ran; it differs from the
\* drawer assigned the time before unless current_turn was cleared in
\* between.
C7_NewDrawerIsNotCurrentTurn ==
  [][\A c \in Conns :
       Assigns(c) => /\ current_turn' \in Keys(players')
                     /\ current_turn' # current_turn
                     /\ current_turn # None => current_turn' # lastDrawer
                     /\ lastDrawer' = current_turn']_vars
\* reset_game has assigned a drawer among exactly two players
C7_Witness ==
  \E c \in Conns :
    /\ pc[c].at = "bc"
    /\ pc[c].kind = "game_state"
    /\ pc[c].cont = "reset_ret"
    /\ ma_used(players) = 2
    /\ current_turn \in Keys(players)

\* a guess of text g under the name n misses
Miss(n, g) ==
  \/ n = current_turn
  \/ current_word = None
  \/ lower(g) # lower(current_word)

\* C8: handle_guess(name, text) returns False on a miss; on a hit it raises
\* the guesser's score by 1, leaves the other scores alone and goes on to
\* the correct-guess broadcast, after which it returns True.
C8_GuessHitScores ==
  [][\A c \in Conns, g \in Texts :
       Guess(c, g) =>
         IF Miss(player_name[c], g)
         THEN out'.ret = "False"
         ELSE /\ player_name[c] \in DOMAIN scores
              /\ scores' = [scores EXCEPT ![player_name[c]] = @ + 1]
              /\ pc'[c].kind = "correct_guess"
              /\ pc'[c].cont = "snr"]_vars

\* C9: a guess that misses (wrong text, no word set, or any guess of the
\* drawer) returns False, changes none of players, scores, current_turn,
\* current_word, rounds_played, and sends no message.
C9_MissChangesNothing ==
  [][\A c \in Conns, g \in Texts :
       (Guess(c, g) /\ Miss(player_name[c], g))
         => /\ out'.ret = "False"
            /\ out'.msg = NoMsg
            /\ UNCHANGED <<players, scores, current_turn, current_word,
                           rounds_played>>
            /\ pc'[c].at = "recv"]_vars
\* a guess has just missed while a round with a word is on
C9_Witness ==
  /\ out.ret = "False"
  /\ out.msg = NoMsg
  /\ current_word # None
  /\ \E c \in Conns : player_name[c] = current_turn

\* the game-over loop of connection c ends in this step
GameOverEnds(c) ==
  /\ pc[c].at = "bc"
  /\ pc[c].kind = "game_over"
  /\ pc'[c] # pc[c]
  /\ dict_next(players, pc[c].it).tag = "stop"

\* C10: the step in which start_new_round runs with rounds_played =
\* max_rounds raises it to max_rounds + 1, leaves current_turn and
\* current_word as they are and sends a game_over message, no game_state;
\* every game_over message carries the scores as they are; and when the
\* loop ends every player has been sent one.
C10_GameOver ==
  [][/\ (rounds_played = MAX_ROUNDS /\ rounds_played' > rounds_played)
        => /\ rounds_played' = MAX_ROUNDS + 1
           /\ UNCHANGED <<current_turn, current_word, scores>>
           /\ out'.msg.type = "game_over"
     /\ out'.msg.type = "game_over" => out'.msg.scores = scores'
     /\ \A c \in Conns :
          GameOverEnds(c)
            => /\ {pc[c].sent[i].rcpt : i \in 1 .. Len(pc[c].sent)} = Keys(players)
               /\ \A i \in 1 .. Len(pc[c].sent) : pc[c].sent[i].type = "game_over"]_vars
\* a game-over broadcast has sent the scores to two players
C10_Witness ==
  \E c \in Conns :
    /\ pc[c].at = "bc"
    /\ pc[c].kind = "game_over"
    /\ Len(pc[c].sent) = 2
    /\ rounds_played = MAX_ROUNDS + 1
    /\ \E n \in DOMAIN scores : scores[n] > 0

\* reset_game of connection c returns in this step
ResetDone(c) ==
  /\ pc'[c].at = "recv"
  /\ \/ pc[c].at = "bc" /\ pc[c].cont = "reset_ret" /\ pc'[c] # pc[c]
     \/ \E p \in Picks : ResetGame(c, p)

\* C11 as claimed: when reset_game returns, rounds_played = 0, every
\* player's score is 0, and with two or more players a round is on.
C11_ResetZeroRounds ==
  [][\A c \in Conns :
       ResetDone(c) => /\ rounds_played' = 0
                       /\ \A n \in Keys(players') : scores'[n] = 0
                       /\ ma_used(players') >= 2 =>
                            (current_turn' # None /\ current_word' # None)]_vars
\* C11 as amended: when reset_game has run up to its first send (to its
\* return, with fewer than two players) every player's score is 0 and the
\* players are the same; with two or more players rounds_played = 1 and a
\* round is on, its drawer a player other than current_turn before; with
\* fewer, rounds_played = 0 and no round is on.
C11_ResetStartsRoundOne ==
  [][\A c \in Conns, p \in Picks :
       ResetGame(c, p) =>
         /\ Keys(players') = Keys(players)
         /\ DOMAIN scores' = DOMAIN scores
         /\ \A n \in Keys(players') : scores'[n] = 0
         /\ IF ma_used(players) >= 2
            THEN /\ rounds_played' = 1
                 /\ current_turn' \in Keys(players') \ {current_turn}
                 /\ current_word' \in Words
                 /\ out'.msg.type = "game_state"
            ELSE /\ rounds_played' = 0
                 /\ current_turn' = None
                 /\ current_word' = None
                 /\ out'.msg = NoMsg]_vars
\* reset_game has sent the state of round 1 to two players, all scores 0
C11_Witness ==
  \E c \in Conns :
    /\ pc[c].at = "bc"
    /\ pc[c].cont = "reset_ret"
    /\ Len(pc[c].sent) = 2
    /\ pc[c].sent[1].roundsPlayed = 1
    /\ rounds_played = 1
    /\ \A n \in Keys(players) : scores[n] = 0
    /\ current_turn # None

\* C12: when the connection whose player is the drawer disconnects, the
\* removal runs the start-new-round transition: with fewer than two players
\* left current_turn and current_word are cleared; otherwise rounds_played
\* goes up by 1 and, unless max_rounds is passed, a player that is left is
\* the drawer of a new word.
C12_DrawerLeaveStartsRound ==
  [][\A c \in Conns :
       (/\ Disconnect(c)
        /\ player_name[c] = current_turn
        /\ player_name[c] \in Keys(players))
         => IF ma_used(players) - 1 < 2
            THEN current_turn' = None /\ current_word' = None
            ELSE /\ rounds_played' = rounds_played + 1
                 /\ rounds_played' <= MAX_ROUNDS =>
                      (current_turn' \in Keys(players') /\ current_word' \in Words)]_vars

\* C13: a drawing message is relayed only when its connection's player_name
\* is the drawer of a round that is on (current_turn is set and equals the
\* name the connection joined under): a drawing message of a connection
\* that has not joined, or one handled while no round is on, sends no
\* drawing message; and no drawing message is sent to the entry of the
\* drawer.
C13_DrawingOnlyFromDrawer ==
  [][/\ \A c \in Conns, data \in Strokes, valid \in BOOLEAN :
          (Drawing(c, data, valid) /\ out'.msg.type = "drawing")
            => /\ player_name[c] # None
               /\ current_turn # None
               /\ player_name[c] = current_turn
     /\ out'.msg.type = "drawing" => out'.msg.rcpt # current_turn']_vars

\* C14: a guess of a connection whose player_name is not a key of players
\* (it never joined, or its entry was removed) does nothing, whatever its
\* text: no exception leaves handle_guess, the connection is back at
\* receive_text, nothing is sent and no field of the GameState changes.
C14_UnknownGuesserNoOp ==
  [][\A c \in Conns, g \in Texts :
       (Guess(c, g) /\ player_name[c] \notin Keys(players))
         => /\ pc'[c].at = "recv"
            /\ out'.msg = NoMsg
            /\ UNCHANGED <<players, scores, current_turn, current_word,
                           rounds_played>>]_vars

\* the entry that the broadcast loop of connection c sends to in its next
\* step, and whether that send, or one before it in the loop, fails
LoopNext(c) == dict_next(players, pc[c].it)
LoopSends(c) ==
  /\ LoopNext(c).tag = "item"
  /\ ~(pc[c].kind = "drawing" /\ LoopNext(c).entry.name = current_turn)
FailedBefore(c) == \E i \in 1 .. Len(pc[c].sent) : pc[c].sent[i].failed
FailsNow(c) == LoopSends(c) /\ pc[LoopNext(c).entry.ws].at = "closed"

\* C15: a send of a broadcast loop (game_state, game_over, drawing,
\* correct_guess) that fails does not end the loop.  The step that sends to
\* an entry whose connection has ended hands over the message, stays in the
\* same loop and changes no field; after a failed send the loop sends to
\* its next entry as it would have; and when the loop ends after a failed
\* send the operation goes on where the broadcast was called (the handler
\* ends only if the broadcast was that of the disconnect).  No send that
\* fails takes a handler to its except block: a handler gets there only
\* from receive_text's WebSocketDisconnect, from handle_guess's KeyError
\* or from an error of a loop's iterator.
C15_FailedSendGoesOn ==
  [][\A c \in Conns :
       /\ (/\ pc'[c] # pc[c]
           /\ pc[c].cont # "closed"
           /\ pc'[c].at = "closed" \/ pc'[c].cont = "closed")
            => \/ Disconnect(c)
               \/ \E g \in Texts :
                    /\ Guess(c, g)
                    /\ ~Miss(player_name[c], g)
                    /\ player_name[c] \notin DOMAIN scores
               \/ pc[c].at = "bc" /\ LoopNext(c).tag = "error"
       /\ (/\ pc[c].at = "bc"
           /\ pc'[c] # pc[c]
           /\ FailedBefore(c) \/ FailsNow(c))
         => /\ LoopSends(c) =>
                 /\ out'.msg.type = pc[c].kind
                 /\ out'.msg.to = LoopNext(c).entry.ws
                 /\ out'.msg.failed = FailsNow(c)
                 /\ pc'[c] = [pc[c] EXCEPT !.it = LoopNext(c).it,
                                           !.sent = Append(@, out'.msg)]
                 /\ UNCHANGED <<players, scores, current_turn, current_word,
                                rounds_played>>
            /\ LoopNext(c).tag = "stop" =>
                 /\ pc'[c].at = "closed" => pc[c].cont = "closed"
                 /\ scores' = scores
                 /\ Keys(players') = Keys(players)]_vars
\* a loop has sent to a player after its send to another entry failed
C15_Witness ==
  \E c \in Conns :
    /\ pc[c].at = "bc"
    /\ \E i, j \in 1 .. Len(pc[c].sent) :
         /\ i < j
         /\ pc[c].sent[i].failed
         /\ ~pc[c].sent[j].failed
         /\ pc[c].sent[j].to # pc[c].sent[i].to

\* C16: a join or a leave handled by another connection while a broadcast
\* is suspended at a send does not break the broadcast: when the broadcast
\* is resumed its loop does not fail, and the handler that runs it does not
\* end (unless the broadcast is that of its own disconnect).
C16_BroadcastSurvivesJoinLeave ==
  [][\A c \in Conns :
       (pc[c].at = "bc" /\ pc'[c] # pc[c])
         => /\ LoopNext(c).tag # "error"
            /\ pc'[c].at = "closed" => pc[c].cont = "closed"]_vars

\* C17: in one round (one assignment of a drawer and a word) at most one
\* guess is a hit and at most one score goes up: while a handler is inside
\* the correct-guess broadcast of its hit, its start_new_round still to
\* run, no guess handled by another connection is a hit or changes a score.
C17_OneHitPerRound ==
  [][\A c \in Conns, g \in Texts :
       (/\ Guess(c, g)
        /\ \E k \in Conns \ {c} :
             /\ pc[k].at = "bc"
             /\ pc[k].kind = "correct_guess"
             /\ pc[k].cont = "snr")
         => /\ scores' = scores
            /\ pc'[c].kind # "correct_guess"]_vars

\* C18: the correct_guess messages of one broadcast name the guesser and
\* all carry the word that the guess matched, the word of the first of
\* them, whatever is handled while the broadcast is suspended at a send.
C18_CorrectGuessWord ==
  \A c \in Conns :
    (pc[c].at = "bc" /\ pc[c].kind = "correct_guess")
      => \A i \in 1 .. Len(pc[c].sent) :
           /\ pc[c].sent[i].player = pc[c].who
           /\ pc[c].sent[i].word = pc[c].sent[1].word

\* C19: once the game is over (rounds_played > max_rounds: the game-over
\* broadcast has been started) no guess changes a score until reset_game.
C19_HaltedAfterGameOver ==
  [][\A c \in Conns, g \in Texts :
       (Guess(c, g) /\ rounds_played > MAX_ROUNDS) => scores' = scores]_vars

\* C20: once the handler of a connection has ended (its disconnect has been
\* handled), no entry of players holds that connection as its websocket,
\* whatever the connection sent before.
C20_NoEntryOfClosedConnection ==
  \A c \in Conns :
    pc[c].at = "closed"
      => \A i \in 1 .. Len(players) : IsLive(players[i]) => players[i].ws # c

====
